---------------------------- MODULE Spec2Model ----------------------------
(***************************************************************************)
(* Review orchestration core of Gitea-TLDR.                                *)
(*                                                                         *)
(* Pipeline part: WebhookHandler._perform_review                           *)
(* (src/app/services/webhook_handler.py) run by several background tasks   *)
(* on one asyncio event loop.  Each await of the handler is a suspension   *)
(* point: an action below is the completion of one awaited call together   *)
(* with the synchronous code that follows it up to the next await.  The    *)
(* collaborators are modelled by what their code returns:                  *)
(*   - GiteaClient methods catch every exception and return None/False;    *)
(*   - Database.session() commits on exit and rolls back and re-raises on  *)
(*     an exception; any database block may raise;                         *)
(*   - RepoManager works on the path work_dir/{owner}_{repo}_pr{n};        *)
(*   - the analyze call on the review engine either raises at the call     *)
(*     (ProviderRegistry.create raises ValueError on an unknown engine     *)
(*     name; ReviewEngine.analyze_pr / analyze_pr_simple of                *)
(*     review_engine.py declare provider_api_base_url /                    *)
(*     provider_auth_token / provider_name and no api_url / api_key /      *)
(*     engine / model / wire_api keyword, so the handler's call with those *)
(*     keywords raises TypeError), or it runs a provider, whose analyze    *)
(*     methods catch every exception and return a ReviewResult or None.    *)
(*                                                                         *)
(* Provider part: the analyze methods of ClaudeCodeProvider and            *)
(* CodexProvider (src/app/services/providers), invoked concurrently: the   *)
(* environment each builds for its subprocess and the scratch CODEX_HOME   *)
(* directory of a Codex invocation.                                        *)
(***************************************************************************)
EXTENDS Integers, Sequences, FiniteSets, TLC

\* ------------------------------------------------------------------ bounds
NumRuns == 2
NumPRs == 2
NumInvocations == 2
MaxEntries == 2

Runs == 1..NumRuns
PRs == 1..NumPRs
Invocations == 1..NumInvocations

\* --------------------------------------------------------------- constants
NULL == "NULL"
Features == {"comment", "review", "status"}
PRActions == {"opened", "synchronized", "closed"}

VARIABLES
  run,        \* per background task: the locals of _perform_review
  sessions,   \* review_sessions table (committed rows), id = index
  repoRow,    \* TRUE iff the repositories row (owner, repo) is committed
  dirs,       \* work_dir: path |-> run whose clone it holds, 0 = absent
  environ,    \* os.environ of the service process
  inv,        \* per provider invocation: arguments, locals, subprocess env
  homes,      \* scratch CODEX_HOME directories: name |-> existence and config.toml
  call,       \* one application of a function of the service: arguments and result
  last_error  \* _last_error of the provider instance registered under each name

provVars == <<environ, inv, homes, call, last_error>>
vars == <<run, sessions, repoRow, dirs, environ, inv, homes, call, last_error>>

\* ---------------------------------------------------------------- helpers
\* RepoManager.get_repo_path: the directory is a function of (owner, repo,
\* pr_number) only; one repository is modelled, so the PR number names it.
get_repo_path(pr) == pr

\* Variant of DatabaseSession that keeps the writes of a block that raised.
DatabaseSessionNoRollback(before, after, ok) == after

\* Database.session(): commit when the block ends normally, rollback when
\* it raises.
DatabaseSession(before, after, ok) == IF ok THEN after ELSE before

\* DBService.create_review_session: a pending row.  inline_rows and
\* usage_rows are the numbers of rows of the inline_comments and usage_stats
\* tables whose review_session_id is this row's id.
create_review_session(r, pr) ==
  [owner_run |-> r, pr_number |-> pr, analysis_mode |-> NULL,
   overall_success |-> NULL, error_message |-> NULL, completed_at |-> 0,
   inline_comments_count |-> 0, inline_rows |-> 0, usage_rows |-> 0]

\* DBService.update_review_session: a field is written only when the
\* argument is not None (-1 for the integer inline_comments_count);
\* completed=True writes a new utcnow() to completed_at (0 = NULL, k = the
\* k-th timestamp written to the row).
update_review_session(ss, sid, analysis_mode, overall_success, error_message, inline_comments_count, completed) ==
  IF sid \notin DOMAIN ss THEN ss
  ELSE [ss EXCEPT ![sid] =
         [@ EXCEPT
            !.analysis_mode = IF analysis_mode # NULL THEN analysis_mode ELSE @,
            !.overall_success = IF overall_success # NULL THEN overall_success ELSE @,
            !.error_message = IF error_message # NULL THEN error_message ELSE @,
            !.inline_comments_count =
               IF inline_comments_count # -1 THEN inline_comments_count ELSE @,
            !.completed_at = IF completed THEN @ + 1 ELSE @]]

\* DBService.save_inline_comments: one row per finding.
save_inline_comments(ss, sid, n) ==
  IF sid \notin DOMAIN ss THEN ss
  ELSE [ss EXCEPT ![sid] = [@ EXCEPT !.inline_rows = @ + n]]

NoPub == [comment |-> "na", review |-> "na", status |-> "na"]
NoAttempt == [comment |-> 0, review |-> 0, status |-> 0]

\* The locals of one background task at the start of handle_pull_request,
\* with the webhook it was scheduled for: the PR action, the PR number and
\* the feature list the review runs with.
Task(action, pr, fs) ==
  [pc |-> "idle", action |-> action, pr |-> pr, features |-> fs, sid |-> 0,
   repo_seen |-> FALSE, comment_id |-> 0, n_create |-> 0, n_posted |-> 0, n_update |-> 0,
   statuses |-> <<>>, diff |-> "none", repo_path |-> 0, mode |-> NULL,
   entry |-> NULL, result |-> "none", severe |-> FALSE, cleaned |-> FALSE,
   success |-> TRUE, pub |-> NoPub, att |-> NoAttempt, exc |-> "none",
   db_error |-> "none", ret |-> NULL, trigger_type |-> "auto",
   pr_fetched |-> FALSE, analysis_error |-> NULL, saved_inline |-> FALSE,
   bot_username |-> NULL,
   comment |-> [action |-> NULL, has_review |-> FALSE, mention |-> "none",
                is_pr |-> FALSE]]

\* An issue_comment payload: its action, whether the body contains
\* "/review", what the body mentions (nothing, "@" + the bot's name, or
\* "@" + a longer name that begins with the bot's name), and whether the
\* issue is a pull request.
Comments ==
  [action : {"created", "edited"}, has_review : BOOLEAN,
   mention : {"none", "bot", "longer_name"}, is_pr : BOOLEAN]

\* The same for an issue_comment webhook on the PR, at the start of
\* handle_issue_comment, with the configured bot_username; fs is the
\* feature list of the command.
ManualTask(pr, fs, bot_username, comment) ==
  [Task(comment.action, pr, fs) EXCEPT !.trigger_type = "manual",
                                       !.bot_username = bot_username,
                                       !.comment = comment]

\* CommandParser.parse_comment: a command (TRUE) when the body contains
\* "/review" and, with a bot_username, re.search finds "@" + bot_username
\* in it, which it does in a mention of the bot and in a mention of a
\* longer name alike.
parse_comment(bot_username, comment) ==
  /\ comment.has_review
  /\ bot_username # NULL => comment.mention \in {"bot", "longer_name"}

\* No webhook was delivered for this task.
NoTask == [Task("closed", 1, {}) EXCEPT !.pc = "none"]

EnvVars ==
  {"ANTHROPIC_BASE_URL", "ANTHROPIC_AUTH_TOKEN", "ANTHROPIC_MODEL",
   "OPENAI_API_KEY", "CODEX_API_KEY", "CODEX_HOME", "PATH", "HOME"}
ProviderNames == {"claude_code", "codex_cli"}
\* ReviewEngine.default_provider_name: the provider whose one instance the
\* engine keeps and every review with that engine shares.
default_provider_name == "claude_code"
Keys == {"key" \o ToString(i) : i \in 1..NumInvocations}
\* Directory names mkdtemp(prefix="codex_home_") can return.
HomeNames == {"codex_home_" \o ToString(n) : n \in 1..NumInvocations}

\* The arguments of one analyze call, before it starts.
Invocation(provider, api_url, api_key, model) ==
  [pc |-> "idle", provider |-> provider, api_url |-> api_url,
   api_key |-> api_key, model |-> model, env |-> [v \in EnvVars |-> NULL],
   codex_home |-> NULL,
   outcome |-> "none"]

\* A CODEX_HOME name no directory has.
NoDir == [exists |-> FALSE, model |-> NULL, base_url |-> NULL, env_key |-> NULL, made_by |-> 0]

NoInvocation == [Invocation("claude_code", NULL, NULL, NULL) EXCEPT !.pc = "none"]

\* os.environ with the given ambient credentials.
Environ(anthropic_token, openai_key) ==
  [v \in EnvVars |->
     CASE v = "ANTHROPIC_AUTH_TOKEN" -> anthropic_token
       [] v = "OPENAI_API_KEY" -> openai_key
       [] v = "PATH" -> "/bin"
       [] v = "HOME" -> "/root"
       [] OTHER -> NULL]

InitStore ==
  /\ sessions = <<>>
  /\ repoRow \in BOOLEAN
  /\ dirs = [p \in PRs |-> 0]

\* No function application is under way.
NoCall == [op |-> "none"]

NoProvider ==
  /\ call = NoCall
  /\ environ = Environ(NULL, NULL)
  /\ inv = [i \in Invocations |-> NoInvocation]
  /\ homes = [h \in HomeNames |-> NoDir]
  /\ last_error = [p \in ProviderNames |-> NULL]

\* One webhook: any action, any PR, any feature list.
Init ==
  /\ \E a \in PRActions, p \in PRs, fs \in SUBSET Features :
       run = [r \in Runs |-> IF r = 1 THEN Task(a, p, fs) ELSE NoTask]
  /\ InitStore
  /\ NoProvider

\* One webhook per task, processed concurrently, each with the default
\* feature list ["comment"].
InitConcurrent ==
  /\ run \in [Runs -> {Task("opened", p, {"comment"}) : p \in PRs}]
  /\ InitStore
  /\ NoProvider

\* Concurrent analyze calls on the providers: any provider, each call
\* with a key of its own or none, endpoint and model either both defaulted
\* or both overridden, the ambient credentials set or not; no pipeline run.
InitProvider ==
  /\ call = NoCall
  /\ run = [r \in Runs |-> NoTask]
  /\ sessions = <<>>
  /\ repoRow = FALSE
  /\ dirs = [p \in PRs |-> 0]
  /\ \E a \in {<<NULL, NULL>>, <<"ambient_token", "ambient_key">>} :
       environ = Environ(a[1], a[2])
  /\ \E ks \in [Invocations -> BOOLEAN],
        pns \in [Invocations -> ProviderNames],
        os \in [Invocations -> {<<NULL, NULL>>, <<"url1", "model1">>}] :
       inv = [i \in Invocations |->
                Invocation(pns[i], os[i][1],
                           IF ks[i] THEN "key" \o ToString(i) ELSE NULL, os[i][2])]
  /\ homes = [h \in HomeNames |-> NoDir]
  /\ last_error = [p \in ProviderNames |-> NULL]

Set(r, rec) == run' = [run EXCEPT ![r] = rec]
B(b) == IF b THEN "T" ELSE "F"

\* Variant of AndSuccess that assigns instead of and-ing.
AndSuccessAssign(success, outcome) == outcome

\* `success &= outcome` of the publish steps.
AndSuccess(success, outcome) == success /\ outcome

\* RepoManager.cleanup_repository: rmtree of the path when it exists,
\* whichever run's clone it holds.
cleanup_repository(d, pr) == [d EXCEPT ![get_repo_path(pr)] = 0]

\* GiteaClient.create_commit_status issued by run r with the given state.
create_commit_status(rec, state) == Append(rec.statuses, state)

\* ---------------------------------------------------------------- actions
\* Variant of HandlePullRequest that reviews every action.
HandlePullRequestAnyAction(r) ==
  /\ run[r].pc = "idle" /\ run[r].trigger_type = "auto"
  /\ Set(r, [run[r] EXCEPT !.pc = "select_repo"])
  /\ UNCHANGED <<sessions, repoRow, dirs>>
  /\ UNCHANGED provVars

\* handle_pull_request: the entry filter.
HandlePullRequest(r) ==
  /\ run[r].pc = "idle" /\ run[r].trigger_type = "auto"
  /\ IF run[r].action \notin {"opened", "synchronized"}
     THEN Set(r, [run[r] EXCEPT !.pc = "ignored", !.ret = "T"])
     ELSE Set(r, [run[r] EXCEPT !.pc = "select_repo"])
  /\ UNCHANGED <<sessions, repoRow, dirs>>
  /\ UNCHANGED provVars

\* handle_issue_comment: the entry filters return True; for a command on
\* a PR the PR is fetched from the forge, and _perform_review is entered
\* if that succeeded.
HandleIssueComment(r) ==
  /\ run[r].pc = "idle" /\ run[r].trigger_type = "manual"
  /\ IF \/ run[r].comment.action # "created"
        \/ ~parse_comment(run[r].bot_username, run[r].comment)
        \/ ~run[r].comment.is_pr
     THEN Set(r, [run[r] EXCEPT !.pc = "ignored", !.ret = "T"])
     ELSE \E ok \in BOOLEAN :
            IF ok
            THEN Set(r, [run[r] EXCEPT !.pc = "select_repo", !.pr_fetched = TRUE])
            ELSE Set(r, [run[r] EXCEPT !.pc = "done", !.pr_fetched = TRUE, !.ret = "F"])
  /\ UNCHANGED <<sessions, repoRow, dirs>>
  /\ UNCHANGED provVars

\* get_or_create_repository: the SELECT; the task is suspended on it.
SelectRepository(r) ==
  /\ run[r].pc = "select_repo"
  /\ Set(r, [run[r] EXCEPT !.pc = "create_session", !.repo_seen = repoRow])
  /\ UNCHANGED <<sessions, repoRow, dirs>>
  /\ UNCHANGED provVars

\* The rest of the first database block: INSERT of the repository row when
\* the SELECT found none (uq_owner_repo rejects a second row), resolution of
\* features, INSERT of the pending session, commit.  A failure of the block
\* is raised by one of its statements, before review_session_id is assigned.
CreateSession(r) ==
  /\ run[r].pc = "create_session"
  /\ IF ~run[r].repo_seen /\ repoRow
     THEN /\ Set(r, [run[r] EXCEPT !.pc = "except", !.exc = "IntegrityError"])
          /\ UNCHANGED <<sessions, repoRow>>
     ELSE \E ok \in BOOLEAN :
            /\ sessions' = DatabaseSession(sessions,
                  Append(sessions, create_review_session(r, run[r].pr)), ok)
            /\ repoRow' = DatabaseSession(repoRow, TRUE, ok)
            /\ IF ok
               THEN Set(r, [run[r] EXCEPT !.pc = "placeholder",
                                          !.sid = Len(sessions) + 1])
               ELSE Set(r, [run[r] EXCEPT !.pc = "except", !.exc = "DBError"])
  /\ UNCHANGED dirs
  /\ UNCHANGED provVars

\* The placeholder comment.
PostPlaceholder(r) ==
  /\ run[r].pc = "placeholder"
  /\ IF "comment" \in run[r].features
     THEN \E ok \in BOOLEAN :
            Set(r, [run[r] EXCEPT !.pc = "pending", !.n_create = @ + 1,
                                  !.n_posted = IF ok THEN @ + 1 ELSE @,
                                  !.comment_id = IF ok THEN r ELSE 0])
     ELSE Set(r, [run[r] EXCEPT !.pc = "pending"])
  /\ UNCHANGED <<sessions, repoRow, dirs>>
  /\ UNCHANGED provVars

\* The pending commit status.
SetPendingStatus(r) ==
  /\ run[r].pc = "pending"
  /\ IF "status" \in run[r].features
     THEN Set(r, [run[r] EXCEPT !.pc = "fetch_diff",
                                !.statuses = create_commit_status(run[r], "pending")])
     ELSE Set(r, [run[r] EXCEPT !.pc = "fetch_diff"])
  /\ UNCHANGED <<sessions, repoRow, dirs>>
  /\ UNCHANGED provVars

\* Variant of FetchDiff that fetches again after a failure.
FetchDiffRetry(r) ==
  /\ run[r].pc = "fetch_diff"
  /\ \E ok \in BOOLEAN :
       /\ Set(r, [run[r] EXCEPT !.diff = IF ok THEN "ok" ELSE "fail",
                                !.pc = IF ok THEN "cloning"
                                       ELSE IF run[r].diff = "none" THEN "fetch_diff"
                                       ELSE "diff_fail_comment"])
       /\ dirs' = IF ok THEN [dirs EXCEPT ![get_repo_path(run[r].pr)] = 0] ELSE dirs
  /\ UNCHANGED <<sessions, repoRow>>
  /\ UNCHANGED provVars

\* get_pull_request_diff returns the text or None.  With a diff the
\* handler enters clone_repository, which removes an existing directory at
\* the path before it awaits the git subprocess.
FetchDiff(r) ==
  /\ run[r].pc = "fetch_diff"
  /\ \E ok \in BOOLEAN :
       /\ Set(r, [run[r] EXCEPT !.diff = IF ok THEN "ok" ELSE "fail",
                                !.pc = IF ok THEN "cloning" ELSE "diff_fail_comment"])
       /\ dirs' = IF ok THEN [dirs EXCEPT ![get_repo_path(run[r].pr)] = 0] ELSE dirs
  /\ UNCHANGED <<sessions, repoRow>>
  /\ UNCHANGED provVars

DiffFailComment(r) ==
  /\ run[r].pc = "diff_fail_comment"
  /\ Set(r, [run[r] EXCEPT !.pc = "diff_fail_status",
                           !.n_update = IF run[r].comment_id # 0 THEN @ + 1 ELSE @])
  /\ UNCHANGED <<sessions, repoRow, dirs>>
  /\ UNCHANGED provVars

DiffFailStatus(r) ==
  /\ run[r].pc = "diff_fail_status"
  /\ Set(r, [run[r] EXCEPT !.pc = "diff_fail_db",
                           !.statuses = IF "status" \in run[r].features
                                        THEN create_commit_status(run[r], "error") ELSE @])
  /\ UNCHANGED <<sessions, repoRow, dirs>>
  /\ UNCHANGED provVars

\* Variant of DiffFailFinalize that completes the session without the reason.
DiffFailFinalizeNoReason(r) ==
  /\ run[r].pc = "diff_fail_db"
  /\ \E ok \in BOOLEAN :
       /\ sessions' = DatabaseSession(sessions,
             update_review_session(sessions, run[r].sid, NULL, "F", NULL, -1, TRUE), ok)
       /\ IF ok
          THEN Set(r, [run[r] EXCEPT !.pc = "done", !.ret = "F"])
          ELSE Set(r, [run[r] EXCEPT !.pc = "except", !.exc = "DBError"])
  /\ UNCHANGED <<repoRow, dirs>>
  /\ UNCHANGED provVars

\* The diff-failure block finalizes the session and returns False.
DiffFailFinalize(r) ==
  /\ run[r].pc = "diff_fail_db"
  /\ \E ok \in BOOLEAN :
       /\ sessions' = DatabaseSession(sessions,
             update_review_session(sessions, run[r].sid, NULL, "F", "no_diff", -1, TRUE), ok)
       /\ IF ok
          THEN Set(r, [run[r] EXCEPT !.pc = "done", !.ret = "F"])
          ELSE Set(r, [run[r] EXCEPT !.pc = "except", !.exc = "DBError"])
  /\ UNCHANGED <<repoRow, dirs>>
  /\ UNCHANGED provVars

\* The git subprocess ends (git clone fails on a non-empty destination)
\* and clone_repository returns the path or None.  The handler selects the
\* mode and calls review_engine.analyze_pr / analyze_pr_simple: the call
\* raises, or the provider is started and the task is suspended on it.
CloneRepository(r) ==
  /\ run[r].pc = "cloning"
  /\ LET p == get_repo_path(run[r].pr) IN
     \E ok \in (IF dirs[p] = 0 THEN BOOLEAN ELSE {FALSE}), raises \in BOOLEAN :
       LET m == IF ok THEN "full" ELSE "simple"
           rec == [run[r] EXCEPT !.repo_path = IF ok THEN p ELSE 0, !.mode = m]
       IN /\ dirs' = IF ok THEN [dirs EXCEPT ![p] = r] ELSE dirs
          /\ IF raises
             THEN Set(r, [rec EXCEPT !.pc = "except", !.exc = "EngineError"])
             ELSE Set(r, [rec EXCEPT !.pc = "analyzing",
                            !.entry = IF m = "full" THEN "analyze_pr"
                                      ELSE "analyze_pr_simple"])
          /\ last_error' = IF raises THEN last_error
                           ELSE [last_error EXCEPT ![default_provider_name] = NULL]
  /\ UNCHANGED <<sessions, repoRow>>
  /\ UNCHANGED <<environ, inv, homes, call>>

\* ReviewProvider._set_last_error: a blank message clears the field.
set_last_error(message) == IF message \in {NULL, "", " "} THEN NULL ELSE message

\* analysis_error = self.review_engine.last_error or the generic message.
AnalysisError(message) ==
  IF message # NULL /\ message # "" THEN message ELSE "generic_error"

\* The provider returns a ReviewResult, or sets its _last_error and returns
\* None; in full mode the handler then calls cleanup_repository.  For None
\* it reads review_engine.last_error with no await in between: the read
\* raises AttributeError (ReviewEngine of review_engine.py defines no
\* last_error), or yields the field of the provider that ran.
AnalyzeReturn(r) ==
  /\ run[r].pc = "analyzing"
  /\ \E res \in {"ok", "null"}, sev \in BOOLEAN, raises \in BOOLEAN :
       LET after == IF res = "null"
                    THEN [last_error EXCEPT ![default_provider_name] =
                            set_last_error("error of run " \o ToString(r))]
                    ELSE last_error
       IN
       /\ res = "null" => ~sev
       /\ res = "ok" => ~raises
       /\ last_error' = after
       /\ IF raises
          THEN Set(r, [run[r] EXCEPT !.result = res, !.severe = sev,
                         !.cleaned = (run[r].mode = "full"),
                         !.pc = "except", !.exc = "AttributeError"])
          ELSE Set(r, [run[r] EXCEPT !.result = res, !.severe = sev,
                         !.cleaned = (run[r].mode = "full"),
                         !.analysis_error =
                            IF res = "null"
                            THEN AnalysisError(after[default_provider_name])
                            ELSE NULL,
                         !.pc = IF res = "null" THEN "null_comment" ELSE "pub_comment"])
  /\ dirs' = IF run[r].mode = "full" THEN cleanup_repository(dirs, run[r].pr) ELSE dirs
  /\ UNCHANGED <<sessions, repoRow>>
  /\ UNCHANGED <<environ, inv, homes, call>>

NullComment(r) ==
  /\ run[r].pc = "null_comment"
  /\ Set(r, [run[r] EXCEPT !.pc = "null_status",
                           !.n_update = IF run[r].comment_id # 0 THEN @ + 1 ELSE @])
  /\ UNCHANGED <<sessions, repoRow, dirs>>
  /\ UNCHANGED provVars

NullStatus(r) ==
  /\ run[r].pc = "null_status"
  /\ Set(r, [run[r] EXCEPT !.pc = "null_db",
                           !.statuses = IF "status" \in run[r].features
                                        THEN create_commit_status(run[r], "error") ELSE @])
  /\ UNCHANGED <<sessions, repoRow, dirs>>
  /\ UNCHANGED provVars

NullFinalize(r) ==
  /\ run[r].pc = "null_db"
  /\ \E ok \in BOOLEAN :
       /\ sessions' = DatabaseSession(sessions,
             update_review_session(sessions, run[r].sid, run[r].mode, "F",
                                   run[r].analysis_error, -1, TRUE), ok)
       /\ IF ok
          THEN Set(r, [run[r] EXCEPT !.pc = "done", !.ret = "F"])
          ELSE Set(r, [run[r] EXCEPT !.pc = "except", !.exc = "DBError"])
  /\ UNCHANGED <<repoRow, dirs>>
  /\ UNCHANGED provVars

\* Variant of PublishComment that posts the report as a new comment whether
\* or not the placeholder exists.
PublishCommentAlwaysCreate(r) ==
  /\ run[r].pc = "pub_comment"
  /\ IF "comment" \in run[r].features
     THEN \E ok \in BOOLEAN :
            Set(r, [run[r] EXCEPT
                      !.pc = "pub_review",
                      !.n_create = @ + 1,
                      !.n_posted = IF ok THEN @ + 1 ELSE @,
                      !.success = AndSuccess(@, ok),
                      !.pub = [@ EXCEPT !.comment = B(ok)],
                      !.att = [@ EXCEPT !.comment = @ + 1]])
     ELSE Set(r, [run[r] EXCEPT !.pc = "pub_review"])
  /\ UNCHANGED <<sessions, repoRow, dirs>>
  /\ UNCHANGED provVars

\* Publish, comment: update the placeholder, or create a comment when the
\* placeholder was not posted.  n_create counts the create_issue_comment
\* calls of the run, n_posted those that returned a comment id.
PublishComment(r) ==
  /\ run[r].pc = "pub_comment"
  /\ IF "comment" \in run[r].features
     THEN \E ok \in BOOLEAN :
            Set(r, [run[r] EXCEPT
                      !.pc = "pub_review",
                      !.n_update = IF run[r].comment_id # 0 THEN @ + 1 ELSE @,
                      !.n_create = IF run[r].comment_id = 0 THEN @ + 1 ELSE @,
                      !.n_posted = IF run[r].comment_id = 0 /\ ok THEN @ + 1 ELSE @,
                      !.success = AndSuccess(@, ok),
                      !.pub = [@ EXCEPT !.comment = B(ok)],
                      !.att = [@ EXCEPT !.comment = @ + 1]])
     ELSE Set(r, [run[r] EXCEPT !.pc = "pub_review"])
  /\ UNCHANGED <<sessions, repoRow, dirs>>
  /\ UNCHANGED provVars

\* Publish, review (request_reviewer after a successful review does not
\* enter success).
PublishReview(r) ==
  /\ run[r].pc = "pub_review"
  /\ IF "review" \in run[r].features
     THEN \E ok \in BOOLEAN :
            Set(r, [run[r] EXCEPT
                      !.pc = "pub_status",
                      !.success = AndSuccess(@, ok),
                      !.pub = [@ EXCEPT !.review = B(ok)],
                      !.att = [@ EXCEPT !.review = @ + 1]])
     ELSE Set(r, [run[r] EXCEPT !.pc = "pub_status"])
  /\ UNCHANGED <<sessions, repoRow, dirs>>
  /\ UNCHANGED provVars

\* Publish, status: failure when the result indicates failure, else success.
PublishStatus(r) ==
  /\ run[r].pc = "pub_status"
  /\ IF "status" \in run[r].features
     THEN \E ok \in BOOLEAN :
            Set(r, [run[r] EXCEPT
                      !.pc = "finalize",
                      !.statuses = create_commit_status(run[r],
                                      IF run[r].severe THEN "failure" ELSE "success"),
                      !.success = AndSuccess(@, ok),
                      !.pub = [@ EXCEPT !.status = B(ok)],
                      !.att = [@ EXCEPT !.status = @ + 1]])
     ELSE Set(r, [run[r] EXCEPT !.pc = "finalize"])
  /\ UNCHANGED <<sessions, repoRow, dirs>>
  /\ UNCHANGED provVars

\* DBService.record_usage: one more usage_stats row for the session.
record_usage(ss, sid) ==
  IF sid \notin DOMAIN ss THEN ss
  ELSE [ss EXCEPT ![sid] = [@ EXCEPT !.usage_rows = @ + 1]]

\* The final database block: session update, inline comments (the only
\* place save_inline_comments is called, and only for a non-empty list)
\* and usage (the only place record_usage is called; repository_id is set
\* whenever the session id is) in one transaction.  n is the number of
\* findings of the ReviewResult, which the handler first uses here.
Finalize(r) ==
  /\ run[r].pc = "finalize"
  /\ \E ok \in BOOLEAN, n \in 0..MaxEntries :
       /\ sessions' = DatabaseSession(sessions,
             record_usage(
                save_inline_comments(
                   update_review_session(sessions, run[r].sid, run[r].mode,
                                         B(run[r].success), NULL, n, TRUE),
                   run[r].sid, n),
                run[r].sid), ok)
       /\ IF ok
          THEN Set(r, [run[r] EXCEPT !.pc = "done", !.ret = B(run[r].success),
                                     !.saved_inline = TRUE])
          ELSE Set(r, [run[r] EXCEPT !.pc = "except", !.exc = "DBError"])
  /\ UNCHANGED <<repoRow, dirs>>
  /\ UNCHANGED provVars

\* Variant of Except that returns False without touching the session.
ExceptNoUpdate(r) ==
  /\ run[r].pc = "except"
  /\ Set(r, [run[r] EXCEPT !.pc = "done", !.ret = "F"])
  /\ UNCHANGED <<sessions, repoRow, dirs>>
  /\ UNCHANGED provVars

\* The outer except: a failure update of the session when one was created;
\* an exception of that update is logged and dropped.
Except(r) ==
  /\ run[r].pc = "except"
  /\ IF run[r].sid # 0
     THEN \E ok \in BOOLEAN :
            /\ sessions' = DatabaseSession(sessions,
                  update_review_session(sessions, run[r].sid, NULL, "F",
                                        run[r].exc, -1, TRUE), ok)
            /\ Set(r, [run[r] EXCEPT !.pc = "done", !.ret = "F",
                           !.db_error = IF ok THEN @ ELSE "DBError"])
               ELSE /\ Set(r, [run[r] EXCEPT !.pc = "done", !.ret = "F"])
          /\ UNCHANGED sessions
  /\ UNCHANGED <<repoRow, dirs>>
  /\ UNCHANGED provVars


\* ------------------------------------------------------- provider actions
\* Python truthiness of an Optional[str] argument.
Truthy(x) == x # NULL /\ x # ""

\* Variant of ClaudeBuildEnv that leaves ANTHROPIC_AUTH_TOKEN as inherited.
ClaudeBuildEnvNoKey(env0, api_url, api_key, model) ==
  [v \in EnvVars |->
     CASE v = "ANTHROPIC_BASE_URL" /\ Truthy(api_url) -> api_url
       [] v = "ANTHROPIC_MODEL" /\ Truthy(model) -> model
       [] OTHER -> env0[v]]

\* ClaudeCodeProvider._build_env: a copy of os.environ with the supplied
\* base URL, token and model written over it.
ClaudeBuildEnv(env0, api_url, api_key, model) ==
  [v \in EnvVars |->
     CASE v = "ANTHROPIC_BASE_URL" /\ Truthy(api_url) -> api_url
       [] v = "ANTHROPIC_AUTH_TOKEN" /\ Truthy(api_key) -> api_key
       [] v = "ANTHROPIC_MODEL" /\ Truthy(model) -> model
       [] OTHER -> env0[v]]

\* CodexProvider._build_env: CODEX_HOME, PATH, HOME and CODEX_API_KEY (the
\* supplied key, else the ambient OPENAI_API_KEY) and nothing else.
CodexBuildEnv(env0, codex_home, api_key) ==
  [v \in EnvVars |->
     CASE v = "CODEX_HOME" -> codex_home
       [] v = "PATH" -> IF env0["PATH"] # NULL THEN env0["PATH"] ELSE "/usr/bin:/usr/local/bin"
       [] v = "HOME" -> IF env0["HOME"] # NULL THEN env0["HOME"] ELSE "/tmp"
       [] v = "CODEX_API_KEY" ->
            IF Truthy(api_key) THEN api_key
            ELSE IF Truthy(env0["OPENAI_API_KEY"]) THEN env0["OPENAI_API_KEY"]
            ELSE NULL
       [] OTHER -> NULL]

\* CodexProvider._build_codex_home: the config.toml written to the fresh
\* directory names model, base_url and wire_api and refers to the key only
\* by env_key = "CODEX_API_KEY".
CodexConfig(api_url, model) ==
  [exists |-> TRUE,
   model |-> IF Truthy(model) THEN model ELSE "gpt-5.3-codex",
   base_url |-> IF Truthy(api_url) THEN api_url ELSE NULL,
   env_key |-> "CODEX_API_KEY", made_by |-> 0]

\* Variant of ExitError without the default message.
ExitErrorNoDefault(stderr_text) == stderr_text

\* The message of a non-zero exit: the error text of the subprocess
\* (Claude: _extract_actionable_error of it), or the default message with
\* the return code when the subprocess wrote nothing.
ExitError(stderr_text) ==
  IF stderr_text # "" THEN stderr_text ELSE "failed with return code 1"

\* tempfile.mkdtemp(prefix="codex_home_"): a name no existing directory
\* has.  The names are interchangeable, and the least unused one stands
\* for the name returned.
mkdtemp(hs) ==
  "codex_home_" \o ToString(CHOOSE n \in Invocations :
     /\ ~hs["codex_home_" \o ToString(n)].exists
     /\ \A m \in 1..(n - 1) : hs["codex_home_" \o ToString(m)].exists)

\* analyze_pr / analyze_pr_simple up to the await on the subprocess:
\* _last_error is cleared and the environment is built (for Codex together
\* with a directory made by mkdtemp, a name no existing directory has, to
\* which config.toml is written) and handed to the subprocess.  An
\* exception on the way - write_text of config.toml inside
\* _build_codex_home, before the name is returned to analyze_pr, or
\* create_subprocess_exec - is caught: the call returns None, and the
\* finally block removes the directory analyze_pr holds the name of.
ProviderCall(i) ==
  /\ inv[i].pc = "idle"
  /\ \E raises \in {"none", "write_text", "create_subprocess_exec"} :
       LET failed(env) == [inv[i] EXCEPT !.pc = "returned", !.outcome = "null",
                                         !.env = env]
           message == set_last_error("analysis exception")
       IN
       IF inv[i].provider = "claude_code"
       THEN /\ raises # "write_text"
            /\ inv' = [inv EXCEPT ![i] =
                        IF raises = "none"
                        THEN [@ EXCEPT !.pc = "running",
                                       !.env = ClaudeBuildEnv(environ, inv[i].api_url,
                                                              inv[i].api_key, inv[i].model)]
                        ELSE failed(ClaudeBuildEnv(environ, inv[i].api_url,
                                                   inv[i].api_key, inv[i].model))]
            /\ last_error' = [last_error EXCEPT ![inv[i].provider] =
                                IF raises = "none" THEN NULL ELSE message]
            /\ UNCHANGED homes
       ELSE LET h == mkdtemp(homes) IN
              /\ homes' = CASE raises = "none" ->
                                 [homes EXCEPT ![h] =
                                    [CodexConfig(inv[i].api_url, inv[i].model)
                                       EXCEPT !.made_by = i]]
                            [] raises = "write_text" ->
                                 [homes EXCEPT ![h] =
                                    [NoDir EXCEPT !.exists = TRUE, !.made_by = i]]
                            [] OTHER -> homes
              /\ inv' = [inv EXCEPT ![i] =
                          CASE raises = "none" ->
                                 [@ EXCEPT !.pc = "running", !.codex_home = h,
                                           !.env = CodexBuildEnv(environ, h, inv[i].api_key)]
                            [] raises = "write_text" -> failed(inv[i].env)
                            [] OTHER -> failed(CodexBuildEnv(environ, h, inv[i].api_key))]
              /\ last_error' = [last_error EXCEPT ![inv[i].provider] =
                                  IF raises = "none" THEN NULL ELSE message]
  /\ UNCHANGED <<run, sessions, repoRow, dirs, environ, call>>

\* The subprocess ends and the call returns: a ReviewResult; or None with
\* _last_error set, for a non-zero exit, an empty result, or an exception
\* of the parse.  A Codex call removes its CODEX_HOME in the finally block.
ProviderReturn(i) ==
  /\ inv[i].pc = "running"
  /\ \E how \in {"result", "exit", "empty", "exception"},
        stderr_text \in {"", "ERROR: invalid_api_key"} :
       /\ how # "exit" => stderr_text = ""
       /\ inv' = [inv EXCEPT ![i] =
                   [@ EXCEPT !.pc = "returned",
                             !.outcome = IF how = "result" THEN "result" ELSE "null"]]
       /\ last_error' =
            CASE how = "result" -> last_error
              [] how = "exit" ->
                   [last_error EXCEPT ![inv[i].provider] =
                      set_last_error(ExitError(stderr_text))]
              [] how = "empty" ->
                   [last_error EXCEPT ![inv[i].provider] = set_last_error("empty result")]
              [] OTHER ->
                   [last_error EXCEPT ![inv[i].provider] =
                      set_last_error("analysis exception")]
  /\ homes' = IF inv[i].codex_home # NULL THEN [homes EXCEPT ![inv[i].codex_home] = NoDir]
              ELSE homes
  /\ UNCHANGED <<run, sessions, repoRow, dirs, environ, call>>

Next ==
  \E r \in Runs :
    \/ HandlePullRequest(r)
    \/ SelectRepository(r)
    \/ CreateSession(r)
    \/ PostPlaceholder(r)
    \/ SetPendingStatus(r)
    \/ FetchDiff(r)
    \/ DiffFailComment(r)
    \/ DiffFailStatus(r)
    \/ DiffFailFinalize(r)
    \/ CloneRepository(r)
    \/ AnalyzeReturn(r)
    \/ NullComment(r)
    \/ NullStatus(r)
    \/ NullFinalize(r)
    \/ PublishComment(r)
    \/ PublishReview(r)
    \/ PublishStatus(r)
    \/ Finalize(r)
    \/ Except(r)

Spec == Init /\ [][Next]_vars

SpecConcurrent == InitConcurrent /\ [][Next]_vars

\* One trigger of either type: a pull_request webhook or an issue_comment
\* webhook, with a non-empty feature list, the bot_username set or not.
InitManual ==
  /\ \E p \in PRs, fs \in (SUBSET Features) \ {{}} :
       \E t \in {Task("opened", p, fs)}
                \cup {ManualTask(p, fs, b, c) : b \in {NULL, "review-bot"}, c \in Comments} :
         run = [r \in Runs |-> IF r = 1 THEN t ELSE NoTask]
  /\ InitStore
  /\ NoProvider

NextManual ==
  \/ \E r \in Runs : HandleIssueComment(r)
  \/ Next

SpecManual == InitManual /\ [][NextManual]_vars

NextProvider ==
  \E i \in Invocations :
    \/ ProviderCall(i)
    \/ ProviderReturn(i)

SpecProvider == InitProvider /\ [][NextProvider]_vars

\* ================================================================= claims
Sess(r) == sessions[run[r].sid]
HasSession(r) == run[r].sid \in DOMAIN sessions
Last(q) == q[Len(q)]
\* Conjunction of the outcomes of the enabled publish actions of run r.
PublishConj(r) == \A f \in run[r].features : run[r].pub[f] = "T"

C2_PlaceholderUpdated ==
  \A r \in Runs :
    (run[r].pc = "done" /\ run[r].comment_id # 0) => run[r].n_update >= 1

PublishFanOut(r) ==
  /\ \A f \in Features : run[r].att[f] = (IF f \in run[r].features THEN 1 ELSE 0)
  /\ \A f \in Features : (run[r].pub[f] = "na") = (f \notin run[r].features)
  /\ run[r].success = PublishConj(r)

ExpectedStatus(r) ==
  IF run[r].diff = "fail" \/ run[r].result = "null" THEN "error"
  ELSE IF run[r].severe THEN "failure" ELSE "success"

\* C5: with status enabled, pending is set before the diff is fetched, and
\* a run that has returned set last the terminal status of its outcome,
\* never pending.
C5_Status ==
  \A r \in Runs :
    ("status" \in run[r].features) =>
       /\ run[r].diff # "none" => (Len(run[r].statuses) >= 1 /\ run[r].statuses[1] = "pending")
       /\ run[r].pc = "done" /\ run[r].diff # "none" =>
            (Last(run[r].statuses) # "pending" /\ Last(run[r].statuses) = ExpectedStatus(r))

\* C6: a session finalized after the clone step carries analysis_mode
\* simple when the clone returned no path and full when it returned one,
\* and the provider entry point invoked matches the mode.
C6_Mode ==
  \A r \in Runs :
    (run[r].pc = "done" /\ HasSession(r) /\ run[r].mode # NULL
       /\ Sess(r).completed_at # 0) =>
       /\ Sess(r).analysis_mode = (IF run[r].repo_path = 0 THEN "simple" ELSE "full")
       /\ run[r].entry = (IF run[r].repo_path = 0 THEN "analyze_pr_simple" ELSE "analyze_pr")

\* C7: a working copy produced by the clone step has been released
\* (cleanup_repository called) by the time the run returns.
C7_Released ==
  \A r \in Runs :
    (run[r].pc = "done" /\ run[r].repo_path # 0) => run[r].cleaned

\* C8: from its successful clone to the end of its analysis step, the
\* working directory of a run holds that run's clone.
C8_Exclusive ==
  \A r \in Runs :
    (run[r].pc = "analyzing" /\ run[r].repo_path # 0) =>
       dirs[run[r].repo_path] = r

\* C9: every run that passed the entry filter has, when it returns, exactly
\* one session row of its own (unless the database itself failed while
\* creating it), whatever other runs are in flight.
C9_OwnSession ==
  \A r \in Runs :
    (run[r].pc = "done" /\ ~(run[r].sid = 0 /\ run[r].exc = "DBError")) =>
       /\ HasSession(r)
       /\ Sess(r).owner_run = r
       /\ Cardinality({i \in DOMAIN sessions : sessions[i].owner_run = r}) = 1

\* The values of the environment handed to the subprocess of invocation i.
EnvValues(i) == {inv[i].env[v] : v \in EnvVars}

\* C10: of two invocations given different API keys, the environment handed
\* to the subprocess of each contains its own key and never the other's, and
\* a running Codex invocation shares its CODEX_HOME with no other running one.
C10_KeyIsolation ==
  \A i, j \in Invocations :
    (/\ i # j
     /\ inv[i].api_key \in Keys /\ inv[j].api_key \in Keys
     /\ inv[i].api_key # inv[j].api_key
     /\ inv[i].pc \in {"running", "returned"} /\ EnvValues(i) # {NULL}) =>
       /\ inv[i].api_key \in EnvValues(i)
       /\ inv[j].api_key \notin EnvValues(i)
       /\ (inv[i].provider = "codex_cli" /\ inv[i].pc = "running") =>
            (\A k \in Invocations : (k # i /\ inv[k].pc = "running") =>
                                       inv[k].codex_home # inv[i].codex_home)

C10_Witness ==
  \E i, j \in Invocations :
    /\ inv[i].pc = "running" /\ inv[j].pc = "running"
    /\ inv[i].provider = "claude_code" /\ inv[j].provider = "codex_cli"
    /\ inv[i].api_key = "key1" /\ inv[j].api_key = "key2"
    /\ inv[i].env["ANTHROPIC_AUTH_TOKEN"] = "key1"
    /\ inv[j].env["CODEX_API_KEY"] = "key2"

\* The credentials present in the ambient process environment.
AmbientCredentials ==
  {environ[v] : v \in {"ANTHROPIC_AUTH_TOKEN", "OPENAI_API_KEY"}} \ {NULL}

\* An explicit override (API key and/or base URL) was supplied to call i.
HasOverride(i) == Truthy(inv[i].api_key) \/ Truthy(inv[i].api_url)

\* C11: when an explicit override (API key and/or base URL) is supplied to
\* an analyze call, the environment handed to its subprocess holds no
\* credential of the ambient process environment.
C11_NoAmbientLeak ==
  \A i \in Invocations :
    (inv[i].pc \in {"running", "returned"} /\ EnvValues(i) # {NULL} /\ HasOverride(i)) =>
       EnvValues(i) \cap AmbientCredentials = {}

\* ========================================================= config resolution
\* Optional[List[str]]: a list, or None.
Some(q) == [given |-> TRUE, items |-> q]
None == [given |-> FALSE, items |-> <<>>]

\* settings.default_review_focus and the default feature list.
DefaultFocus == <<"quality", "security", "performance", "logic">>
DefaultFeatures == <<"comment">>
FocusAreas == {"quality", "security", "performance", "logic"}

\* The entries of a comma separated list that are valid, in order.
FilterValid(q, valid) == SelectSeq(q, LAMBDA f : f \in valid)

\* WebhookHandler.parse_review_features: the default list when the header
\* is absent, else its valid entries.
parse_review_features(header) ==
  IF ~header.given THEN DefaultFeatures ELSE FilterValid(header.items, Features)

\* WebhookHandler.parse_review_focus.
parse_review_focus(header) ==
  IF ~header.given THEN DefaultFocus ELSE FilterValid(header.items, FocusAreas)

\* CommandParser._parse_review_command: the defaults, replaced by the valid
\* entries of --features / --focus when the option is present and any of
\* its entries is valid.
parse_command_features(opt) ==
  IF opt.given /\ FilterValid(opt.items, Features) # <<>>
  THEN FilterValid(opt.items, Features) ELSE DefaultFeatures

parse_command_focus(opt) ==
  IF opt.given /\ FilterValid(opt.items, FocusAreas) # <<>>
  THEN FilterValid(opt.items, FocusAreas) ELSE DefaultFocus

\* A model_configs row; repository_id is "this_repo" or NULL (global).
ModelConfig(repository_id, api_url, api_key, engine, model, default_features, default_focus) ==
  [exists |-> TRUE, repository_id |-> repository_id, api_url |-> api_url,
   api_key |-> api_key, engine |-> engine, model |-> model,
   default_features |-> default_features, default_focus |-> default_focus]

\* No such row (None).
NoConfig ==
  [exists |-> FALSE, repository_id |-> NULL, api_url |-> NULL, api_key |-> NULL,
   engine |-> NULL, model |-> NULL, default_features |-> None, default_focus |-> None]

\* ModelConfig.get_features / get_focus.
get_features(mc) ==
  IF ~mc.default_features.given THEN DefaultFeatures ELSE mc.default_features.items

get_focus(mc) ==
  IF ~mc.default_focus.given THEN DefaultFocus ELSE mc.default_focus.items

\* DBService.get_model_config: the repository's row when there is one,
\* else the global default row, else None.
get_model_config(repo_cfg, global_cfg) ==
  IF repo_cfg.exists THEN repo_cfg ELSE global_cfg

\* The configuration resolved by the first database block of
\* _perform_review from the trigger's arguments and the row found.
ResolveConfig(features, focus_areas, mc) ==
  [api_url |-> IF mc.exists THEN mc.api_url ELSE NULL,
   api_key |-> IF mc.exists THEN mc.api_key ELSE NULL,
   engine |-> IF mc.exists /\ Truthy(mc.engine) THEN mc.engine ELSE "claude_code",
   model |-> IF mc.exists /\ Truthy(mc.model) THEN mc.model ELSE NULL,
   config_source |-> IF mc.exists /\ mc.repository_id = "this_repo"
                     THEN "repo_config" ELSE "global_default",
   features |-> IF features.given THEN features.items
                ELSE IF mc.exists THEN get_features(mc) ELSE DefaultFeatures,
   focus_areas |-> IF focus_areas.given THEN focus_areas.items
                   ELSE IF mc.exists THEN get_focus(mc) ELSE DefaultFocus]

\* Nothing resolved yet.
NoResolved == ResolveConfig(None, None, NoConfig)

\* The rows a repository can have: none, one carrying only features and
\* focus (as written by update_review_settings), one carrying provider
\* settings.
RepoConfigs ==
  {NoConfig,
   ModelConfig("this_repo", NULL, NULL, NULL, NULL, Some(<<"review", "status">>), Some(<<"logic">>)),
   ModelConfig("this_repo", "repo_url", "repo_key", "codex_cli", "repo_model", None, None)}

\* The global default row: none, or one carrying provider settings.
GlobalConfigs ==
  {NoConfig,
   ModelConfig(NULL, "global_url", "global_key", "codex_cli", "global_model",
               Some(<<"comment", "review">>), Some(<<"security">>))}

\* X-Review-Features / --features as sent: absent, or a list of entries.
GivenFeatures == {None, Some(<<"review">>), Some(<<"status", "bogus">>), Some(<<"bogus">>)}
GivenFocus == {None, Some(<<"security">>), Some(<<"bogus">>)}

\* A trigger was received: a pull_request webhook with its headers
\* ("auto") or a /review command with its options ("manual").
InitConfig ==
  /\ run = [r \in Runs |-> NoTask]
  /\ sessions = <<>>
  /\ repoRow = FALSE
  /\ dirs = [p \in PRs |-> 0]
  /\ environ = Environ(NULL, NULL)
  /\ inv = [i \in Invocations |-> NoInvocation]
  /\ homes = [h \in HomeNames |-> NoDir]
  /\ last_error = [p \in ProviderNames |-> NULL]
  /\ \E t \in {"auto", "manual"}, gf \in GivenFeatures, go \in GivenFocus,
        rc \in RepoConfigs, gc \in GlobalConfigs :
       call = [op |-> "config", pc |-> "received", trigger_type |-> t,
               given_features |-> gf, given_focus |-> go,
               repo_cfg |-> rc, global_cfg |-> gc,
               features |-> None, focus_areas |-> None,
               resolved |-> NoResolved]

\* The route (or the command parser) turns what the trigger sent into the
\* features and focus_areas arguments of _perform_review.
ParseTrigger ==
  /\ call.op = "config" /\ call.pc = "received"
  /\ call' = [call EXCEPT
       !.pc = "parsed",
       !.features = Some(IF call.trigger_type = "auto"
                         THEN parse_review_features(call.given_features)
                         ELSE parse_command_features(call.given_features)),
       !.focus_areas = Some(IF call.trigger_type = "auto"
                            THEN parse_review_focus(call.given_focus)
                            ELSE parse_command_focus(call.given_focus))]
  /\ UNCHANGED <<run, sessions, repoRow, dirs, environ, inv, homes, last_error>>

\* The first database block resolves the configuration; reading the
\* provider attributes of a row found may raise (models/model_config.py
\* declares no api_url / api_key / wire_api / engine / model attribute).
ResolveConfiguration ==
  /\ call.op = "config" /\ call.pc = "parsed"
  /\ LET mc == get_model_config(call.repo_cfg, call.global_cfg)
     IN \/ call' = [call EXCEPT !.pc = "resolved",
                      !.resolved = ResolveConfig(call.features, call.focus_areas, mc)]
        \/ mc.exists /\ call' = [call EXCEPT !.pc = "raised"]
  /\ UNCHANGED <<run, sessions, repoRow, dirs, environ, inv, homes, last_error>>

NextConfig == ParseTrigger \/ ResolveConfiguration

SpecConfig == InitConfig /\ [][NextConfig]_vars

\* The list the configuration provides for a run whose trigger gives none.
ConfiguredFeatures ==
  IF call.repo_cfg.exists THEN get_features(call.repo_cfg)
  ELSE IF call.global_cfg.exists THEN get_features(call.global_cfg)
  ELSE DefaultFeatures

ConfiguredFocus ==
  IF call.repo_cfg.exists THEN get_focus(call.repo_cfg)
  ELSE IF call.global_cfg.exists THEN get_focus(call.global_cfg)
  ELSE DefaultFocus

\* C12: features and focus given by the trigger win over configuration,
\* and a pull_request webhook without X-Review-Features / X-Review-Focus
\* runs with the features and focus of the repository's ModelConfig, else
\* of the global default one, else with the process-wide defaults.
C12_TriggerPrecedence ==
  (call.op = "config" /\ call.pc = "resolved" /\ call.trigger_type = "auto") =>
     /\ call.given_features.given =>
          call.resolved.features = FilterValid(call.given_features.items, Features)
     /\ call.given_focus.given =>
          call.resolved.focus_areas = FilterValid(call.given_focus.items, FocusAreas)
     /\ (~call.given_features.given /\ ~call.given_focus.given) =>
          /\ call.resolved.features = ConfiguredFeatures
          /\ call.resolved.focus_areas = ConfiguredFocus

\* C13: config_source is header when the trigger gave features or focus,
\* repo_config when the repository's ModelConfig was used, global_default
\* otherwise.
C13_ConfigSource ==
  (call.op = "config" /\ call.pc = "resolved") =>
     call.resolved.config_source =
       (IF call.given_features.given \/ call.given_focus.given THEN "header"
        ELSE IF call.repo_cfg.exists THEN "repo_config"
        ELSE "global_default")

\* A row that carries no engine, API URL or API key.
Incomplete(mc) == ~Truthy(mc.engine) /\ ~Truthy(mc.api_url) /\ ~Truthy(mc.api_key)

\* The provider settings of a resolved configuration or of a row.
ProviderSettings(c) ==
  [api_url |-> c.api_url, api_key |-> c.api_key, engine |-> c.engine, model |-> c.model]

\* C14: when the repository's ModelConfig is absent or incomplete the
\* provider settings used are those of the global default ModelConfig, and
\* the process-wide defaults only when that is absent too.
C14_Fallback ==
  (call.op = "config" /\ call.pc = "resolved") =>
     ProviderSettings(call.resolved) =
       (IF call.repo_cfg.exists /\ ~Incomplete(call.repo_cfg)
        THEN ProviderSettings(call.repo_cfg)
        ELSE IF call.global_cfg.exists THEN ProviderSettings(call.global_cfg)
        ELSE ProviderSettings(NoResolved))

\* Run r has made a call to the forge, to git or to the provider.
ExternalCallMade(r) ==
  \/ run[r].pr_fetched
  \/ run[r].n_create > 0 \/ run[r].n_update > 0
  \/ Len(run[r].statuses) > 0
  \/ run[r].diff # "none"
  \/ run[r].mode # NULL

\* C15: for both trigger types, the pending session of a run is committed
\* before the first external call made for that review.
C15_SessionFirst ==
  \A r \in Runs : ExternalCallMade(r) => HasSession(r)

\* Run r made no clone attempt, no provider invocation and no publish step.
StoppedAfterDiff(r) ==
  /\ run[r].mode = NULL /\ run[r].repo_path = 0
  /\ run[r].entry = NULL /\ run[r].result = "none"
  /\ run[r].att = NoAttempt /\ run[r].n_create <= 1

\* Feedback of a run whose diff was unavailable: one update of the
\* placeholder if it was posted, status error if status is enabled, and
\* False returned.
DiffFailFeedback(r) ==
  /\ run[r].ret = "F"
  /\ run[r].comment_id # 0 => run[r].n_update = 1
  /\ "status" \in run[r].features => Last(run[r].statuses) = "error"

\* C16 (as stated): a run whose diff was unavailable finalized its session
\* as a failure with the could-not-fetch-diff reason, gave the feedback,
\* returned false and made no clone, provider or publish step.
C16_Original ==
  \A r \in Runs :
    (run[r].pc = "done" /\ run[r].diff = "fail") =>
       /\ DiffFailFeedback(r) /\ StoppedAfterDiff(r)
       /\ HasSession(r) /\ Sess(r).completed_at # 0
       /\ Sess(r).overall_success = "F" /\ Sess(r).error_message = "no_diff"

\* C16 (amended): the same, the session carrying the could-not-fetch-diff
\* reason when its finalizing update commits; when that update raises the
\* session carries the exception text or stays pending.
C16_DiffUnavailable ==
  \A r \in Runs :
    /\ run[r].diff = "fail" => StoppedAfterDiff(r)
    /\ (run[r].pc = "done" /\ run[r].diff = "fail") =>
          /\ DiffFailFeedback(r)
          /\ HasSession(r)
          /\ run[r].exc = "none" =>
               /\ Sess(r).completed_at # 0 /\ Sess(r).overall_success = "F"
               /\ Sess(r).error_message = "no_diff"
          /\ run[r].exc # "none" =>
               /\ Sess(r).overall_success \in {NULL, "F"}
               /\ Sess(r).error_message \in {NULL, run[r].exc}

C16_Witness ==
  \E r \in Runs :
    /\ run[r].pc = "done" /\ run[r].diff = "fail" /\ run[r].exc = "none"
    /\ run[r].comment_id # 0 /\ run[r].n_update = 1
    /\ "status" \in run[r].features /\ Last(run[r].statuses) = "error"
    /\ run[r].ret = "F" /\ Sess(r).error_message = "no_diff"

\* C17: when the provider returned null, the session is finalized with
\* overall_success = false and error_message = the engine's last error
\* (the generic message if there is none), the placeholder is updated, the
\* status is error when status is enabled, the run returns false, no
\* publish step runs and no InlineComment row is written.
C17_NullResult ==
  \A r \in Runs :
    (run[r].pc = "done" /\ run[r].result = "null") =>
       /\ run[r].ret = "F"
       /\ run[r].att = NoAttempt /\ ~run[r].saved_inline
       /\ run[r].comment_id # 0 => run[r].n_update = 1
       /\ "status" \in run[r].features => Last(run[r].statuses) = "error"
       /\ (HasSession(r) /\ run[r].exc = "none") =>
            /\ Sess(r).completed_at # 0 /\ Sess(r).overall_success = "F"
            /\ Sess(r).error_message = "error of run " \o ToString(r)
       /\ (HasSession(r) /\ Sess(r).completed_at # 0) =>
            Sess(r).error_message \in {"error of run " \o ToString(r), "DBError"}

\* ============================================================= output parse
\* One entry of the inline_comments array: a JSON object with the keys
\* path, comment, body and line_type (NULL = key absent, " " = blank
\* string, "nonstring" = a truthy value that is not a string), or a value
\* that is not an object.
Entry(is_object, path, comment, body, line_type) ==
  [is_object |-> is_object, path |-> path, comment |-> comment, body |-> body,
   line_type |-> line_type]

Entries ==
  {Entry(TRUE, "a.py", "text", NULL, NULL),
   Entry(TRUE, "b.py", NULL, "text2", "old"),
   Entry(TRUE, NULL, "text", NULL, NULL),
   Entry(TRUE, "a.py", NULL, NULL, NULL),
   Entry(TRUE, " ", "text", NULL, NULL),
   Entry(FALSE, NULL, NULL, NULL, NULL),
   Entry(TRUE, "c.py", "text", NULL, "nonstring")}

\* The arrays of at most MaxEntries entries.
EntryLists == UNION {[1..n -> Entries] : n \in 0..MaxEntries}

\* str(x or "").strip()
Stripped(x) == IF x = NULL \/ x = "" \/ x = " " THEN "" ELSE x

\* a or b
Or(a, b) == IF Truthy(a) THEN a ELSE b

\* _parse_inline_comment: None ("skip") for a non-object and for an empty
\* path or comment; .lower() of a line_type that is not a string raises;
\* else the finding.
parse_inline_comment(item) ==
  IF ~item.is_object THEN "skip"
  ELSE IF Stripped(item.path) = "" \/ Stripped(Or(item.comment, item.body)) = "" THEN "skip"
  ELSE IF item.line_type = "nonstring" THEN "raise"
  ELSE "finding"

\* The InlineComment built from an entry.
InlineComment(item) ==
  [path |-> Stripped(item.path), comment |-> Stripped(Or(item.comment, item.body))]

RECURSIVE MapFindings(_)
MapFindings(q) ==
  IF q = <<>> THEN <<>>
  ELSE IF parse_inline_comment(Head(q)) = "finding"
       THEN <<InlineComment(Head(q))>> \o MapFindings(Tail(q))
       ELSE MapFindings(Tail(q))

\* The value of the inline_comments key: absent, a list of entries, a
\* string, or a number.
Inline(kind, items) == [kind |-> kind, items |-> items]

\* What json.loads makes of a candidate: a JSON value of a kind, falsy or
\* not in Python, with the keys of an object; "invalid" when it raises
\* JSONDecodeError; "absent" when there is no candidate.
Json(kind, falsy, summary, severity, inline) ==
  [kind |-> kind, falsy |-> falsy, summary |-> summary, severity |-> severity,
   inline |-> inline]

Scalar(kind, falsy) == Json(kind, falsy, NULL, NULL, Inline("absent", <<>>))

Objects ==
  {Json("object", FALSE, "sum", "high", Inline("list", q)) : q \in EntryLists}
  \cup {Json("object", FALSE, NULL, NULL, Inline("absent", <<>>)),
        Json("object", FALSE, "sum", NULL, Inline("string", <<>>)),
        Json("object", FALSE, "sum", NULL, Inline("number", <<>>)),
        Scalar("object", TRUE)}

NonObjects ==
  {Scalar("array", FALSE), Scalar("array", TRUE), Scalar("number", FALSE),
   Scalar("number", TRUE), Scalar("string", FALSE), Scalar("true", FALSE),
   Scalar("null", TRUE)}

Invalid == Scalar("invalid", TRUE)
Absent == Scalar("absent", TRUE)

\* A provider output: blank or not, what the whole text parses to, and the
\* candidates of the fenced block and of the outermost brace span.
Text(blank, whole, fenced, braces) ==
  [blank |-> blank, whole |-> whole, fenced |-> fenced, braces |-> braces]

SmallObjects ==
  {Json("object", FALSE, "sum", "high", Inline("list", <<>>)), Scalar("object", TRUE)}

Texts ==
  {Text(TRUE, Invalid, Absent, Absent)}
  \cup {Text(FALSE, w, Absent, Absent) : w \in Objects \cup NonObjects}
  \cup {Text(FALSE, Invalid, f, b) : f \in {Absent, Invalid} \cup SmallObjects,
                                     b \in {Absent, Invalid} \cup SmallObjects}

\* _extract_json_payload: the whole text if it is JSON of any kind, else
\* the fenced block, else the outermost brace span, else None.
extract_json_payload(text) ==
  IF text.whole.kind \notin {"invalid", "absent"} THEN text.whole
  ELSE IF text.fenced.kind = "object" THEN text.fenced
  ELSE IF text.braces.kind = "object" THEN text.braces
  ELSE Scalar("none", TRUE)

\* The outcomes of _parse_output: None, an exception, a ReviewResult.
ParseNone == [kind |-> "none", summary |-> NULL, severity |-> NULL, findings |-> <<>>]
ParseRaise == [kind |-> "raise", summary |-> NULL, severity |-> NULL, findings |-> <<>>]
ReviewResult(summary, severity, findings) ==
  [kind |-> "result", summary |-> summary, severity |-> severity, findings |-> findings]

\* The free-text result: the trimmed raw text as summary.
FreeText == ReviewResult("raw_text", NULL, <<>>)

\* _parse_output.
parse_output(text) ==
  IF text.blank THEN ParseNone
  ELSE LET data == extract_json_payload(text) IN
    IF data.falsy THEN FreeText
    ELSE IF data.kind # "object" THEN ParseRaise
    ELSE IF data.inline.kind = "number" THEN ParseRaise
    ELSE LET items == IF data.inline.kind = "list" THEN data.inline.items ELSE <<>> IN
      IF \E i \in 1..Len(items) : parse_inline_comment(items[i]) = "raise"
      THEN ParseRaise
      ELSE ReviewResult(IF Truthy(data.summary) THEN data.summary ELSE "raw_text",
                        data.severity, MapFindings(items))

\* A provider subprocess has returned an output.
InitParse ==
  /\ run = [r \in Runs |-> NoTask]
  /\ sessions = <<>>
  /\ repoRow = FALSE
  /\ dirs = [p \in PRs |-> 0]
  /\ environ = Environ(NULL, NULL)
  /\ inv = [i \in Invocations |-> NoInvocation]
  /\ homes = [h \in HomeNames |-> NoDir]
  /\ last_error = [p \in ProviderNames |-> NULL]
  /\ \E t \in Texts :
       call = [op |-> "parse", pc |-> "received", text |-> t, result |-> ParseNone]

\* The provider parses the output.
ParseOutput ==
  /\ call.op = "parse" /\ call.pc = "received"
  /\ call' = [call EXCEPT !.pc = "parsed", !.result = parse_output(call.text)]
  /\ UNCHANGED <<run, sessions, repoRow, dirs, environ, inv, homes, last_error>>

NextParse == ParseOutput

SpecParse == InitParse /\ [][NextParse]_vars

\* None of the three strategies yields a JSON object.
NoJsonObject(text) ==
  /\ text.whole.kind # "object"
  /\ text.fenced.kind # "object"
  /\ text.braces.kind # "object"

\* C18: for every non-empty output the parse yields a ReviewResult without
\* raising, and when no strategy yields a JSON object - plain text, or
\* text whose JSON value is not an object - it is the free-text result.
C18_FreeText ==
  (call.op = "parse" /\ call.pc = "parsed" /\ ~call.text.blank) =>
     /\ call.result.kind = "result"
     /\ NoJsonObject(call.text) => call.result = FreeText

\* An entry that is an object with a non-empty path and a non-empty
\* comment or body.
WellFormed(item) ==
  /\ item.is_object
  /\ Stripped(item.path) # ""
  /\ Stripped(item.comment) # "" \/ Stripped(item.body) # ""

\* C19: the findings are exactly the entries that are objects with a
\* non-empty path and a non-empty comment (or body), in input order; no
\* entry aborts the parse.
C19_InlineFilter ==
  (call.op = "parse" /\ call.pc = "parsed" /\ ~call.text.blank
     /\ call.text.whole.kind = "object" /\ call.text.whole.inline.kind = "list") =>
     /\ call.result.kind = "result"
     /\ call.result.findings =
          [i \in 1..Len(SelectSeq(call.text.whole.inline.items, WellFormed)) |->
             InlineComment(SelectSeq(call.text.whole.inline.items, WellFormed)[i])]

\* ======================================================= severity heuristic
\* str.lower() on the values used here.
Lower(s) ==
  CASE s = "Critical" -> "critical"
    [] s = "CRITICAL" -> "critical"
    [] s = "HIGH" -> "high"
    [] OTHER -> s

\* Severities a result or a finding can carry (NULL = None).
Severities == {NULL, "critical", "Critical", "high", "blocker", "failure", "low", "info"}
FindingSeverities == {NULL, "HIGH", "blocker", "low"}

\* Texts as sequences of words; <<>> is the empty text.  "yanzhong" stands
\* for the two-character word U+4E25 U+91CD ("severe") the code looks for.
Summaries == {<<>>, <<"looks", "fine">>, <<"yanzhong", "issue">>, <<"a", "CRITICAL", "bug">>}
RawOutputs == {<<>>, <<"raw", "text">>}

\* word in text
Contains(text, word) == \E i \in 1..Len(text) : text[i] = word

\* text.lower()
LowerText(text) == [i \in 1..Len(text) |-> Lower(text[i])]

\* ReviewResult.summary_text: summary_markdown, else raw_output.
summary_text(res) ==
  IF res.summary_markdown # <<>> THEN res.summary_markdown ELSE res.raw_output

\* Variant of indicates_failure that does not count severity "failure".
indicates_failure_without_failure(res) ==
  IF Lower(IF res.overall_severity = NULL THEN "" ELSE res.overall_severity)
       \in {"critical", "blocker", "high"} THEN TRUE
  ELSE IF summary_text(res) = <<>> THEN FALSE
  ELSE IF Contains(summary_text(res), "yanzhong")
          \/ Contains(LowerText(summary_text(res)), "critical") THEN TRUE
  ELSE \E i \in 1..Len(res.inline_comments) :
         /\ res.inline_comments[i] # NULL
         /\ Lower(res.inline_comments[i]) \in {"critical", "high", "blocker"}

\* ReviewResult.indicates_failure.
indicates_failure(res) ==
  IF Lower(IF res.overall_severity = NULL THEN "" ELSE res.overall_severity)
       \in {"critical", "blocker", "high", "failure"} THEN TRUE
  ELSE IF summary_text(res) = <<>> THEN FALSE
  ELSE IF Contains(summary_text(res), "yanzhong")
          \/ Contains(LowerText(summary_text(res)), "critical") THEN TRUE
  ELSE \E i \in 1..Len(res.inline_comments) :
         /\ res.inline_comments[i] # NULL
         /\ Lower(res.inline_comments[i]) \in {"critical", "high", "blocker"}

\* A ReviewResult with any severity, summary, raw output and findings
\* (each finding given by its severity).
InitSeverity ==
  /\ run = [r \in Runs |-> NoTask]
  /\ sessions = <<>>
  /\ repoRow = FALSE
  /\ dirs = [p \in PRs |-> 0]
  /\ environ = Environ(NULL, NULL)
  /\ inv = [i \in Invocations |-> NoInvocation]
  /\ homes = [h \in HomeNames |-> NoDir]
  /\ last_error = [p \in ProviderNames |-> NULL]
  /\ \E sev \in Severities, sm \in Summaries, raw \in RawOutputs,
        fs \in UNION {[1..n -> FindingSeverities] : n \in 0..MaxEntries} :
       call = [op |-> "indicates_failure", pc |-> "received",
               res |-> [overall_severity |-> sev, summary_markdown |-> sm,
                        raw_output |-> raw, inline_comments |-> fs],
               failure |-> FALSE]

\* The handler asks whether the result indicates a failure.
IndicatesFailure ==
  /\ call.op = "indicates_failure" /\ call.pc = "received"
  /\ call' = [call EXCEPT !.pc = "returned", !.failure = indicates_failure(call.res)]
  /\ UNCHANGED <<run, sessions, repoRow, dirs, environ, inv, homes, last_error>>

NextSeverity == IndicatesFailure

SpecSeverity == InitSeverity /\ [][NextSeverity]_vars

\* critical, high or blocker, in any case.
Severe(s) == s # NULL /\ Lower(s) \in {"critical", "high", "blocker"}

\* C20 (as stated): indicates_failure is true exactly when the overall severity is
\* critical, high or blocker, or the summary text contains "yanzhong" or
\* (case-insensitively) "critical", or some inline finding has severity
\* critical, high or blocker.
C20_Original ==
  (call.op = "indicates_failure" /\ call.pc = "returned") =>
     call.failure =
       (\/ Severe(call.res.overall_severity)
        \/ Contains(summary_text(call.res), "yanzhong")
        \/ Contains(LowerText(summary_text(call.res)), "critical")
        \/ \E i \in 1..Len(call.res.inline_comments) : Severe(call.res.inline_comments[i]))

\* C20 (amended): indicates_failure is true exactly when the overall
\* severity is, in any case, critical, high, blocker or failure, or when
\* the summary text is non-empty and it contains the keyword or
\* (case-insensitively) "critical" or some inline finding has severity
\* critical, high or blocker; it is false otherwise.
C20_Exact ==
  (call.op = "indicates_failure" /\ call.pc = "returned") =>
     call.failure =
       (\/ Severe(call.res.overall_severity)
        \/ (call.res.overall_severity # NULL /\ Lower(call.res.overall_severity) = "failure")
        \/ /\ summary_text(call.res) # <<>>
           /\ \/ Contains(summary_text(call.res), "yanzhong")
              \/ Contains(LowerText(summary_text(call.res)), "critical")
              \/ \E i \in 1..Len(call.res.inline_comments) :
                   Severe(call.res.inline_comments[i]))

C20_Witness ==
  /\ call.op = "indicates_failure" /\ call.pc = "returned"
  /\ call.res.overall_severity = "info"
  /\ call.res.summary_markdown = <<"yanzhong", "issue">>
  /\ call.res.inline_comments = <<>>
  /\ call.failure

\* C21: a PR event whose action is not opened or synchronized is a no-op
\* success: handle_pull_request returns true, and the run creates no
\* session or repository row, makes no forge call, no clone and no
\* provider invocation.
C21_IgnoredAction ==
  /\ [](\A r \in Runs :
          (run[r].trigger_type = "auto" /\ run[r].pc \notin {"none", "idle"}
             /\ run[r].action \notin {"opened", "synchronized"}) =>
             /\ run[r].pc = "ignored" /\ run[r].ret = "T"
             /\ run[r].sid = 0 /\ ~run[r].pr_fetched
             /\ run[r].n_create = 0 /\ run[r].n_update = 0 /\ run[r].statuses = <<>>
             /\ run[r].diff = "none" /\ run[r].att = NoAttempt
             /\ run[r].mode = NULL /\ run[r].entry = NULL /\ run[r].result = "none")
  /\ [][(\A r \in Runs : run[r].pc # "none" =>
            run[r].action \notin {"opened", "synchronized"})
          => UNCHANGED <<sessions, repoRow, dirs, inv, homes, last_error>>]_vars

C21_Witness ==
  \E r \in Runs :
    /\ run[r].action = "closed" /\ run[r].pc = "ignored" /\ run[r].ret = "T"
    /\ sessions = <<>>

\* C22: handle_issue_comment returns success with no further action (no PR
\* fetch, no session, no forge write, no clone, no provider invocation)
\* whenever the event is not a creation, the comment holds no review
\* command, a bot mention is configured and the comment does not mention
\* the bot, or the issue is not a pull request; a review is started only
\* when none of these holds.
C22_CommentFilter ==
  \A r \in Runs :
    (run[r].trigger_type = "manual" /\ run[r].pc \notin {"none", "idle"}
       /\ (\/ run[r].comment.action # "created"
           \/ ~run[r].comment.has_review
           \/ (run[r].bot_username # NULL /\ run[r].comment.mention # "bot")
           \/ ~run[r].comment.is_pr)) =>
       /\ run[r].pc = "ignored" /\ run[r].ret = "T"
       /\ ~run[r].pr_fetched /\ run[r].sid = 0
       /\ run[r].n_create = 0 /\ run[r].n_update = 0 /\ run[r].statuses = <<>>
       /\ run[r].diff = "none" /\ run[r].entry = NULL

\* C23: a review whose resolved engine name is not registered (the analyze
\* call raises the unknown-provider error) leaves behind no pending
\* session, no placeholder comment, no pending commit status and no
\* working copy.
C23_UnknownProvider ==
  \A r \in Runs :
    (run[r].pc = "done" /\ run[r].exc = "EngineError") =>
       /\ HasSession(r) => Sess(r).completed_at # 0
       /\ run[r].comment_id # 0 => run[r].n_update >= 1
       /\ run[r].statuses # <<>> => Last(run[r].statuses) # "pending"
       /\ dirs[get_repo_path(run[r].pr)] # r

\* The position of a step of _perform_review in the order of its code.
Stage(pc) ==
  CASE pc \in {"none", "idle"} -> 0
    [] pc \in {"select_repo", "ignored"} -> 1
    [] pc = "create_session" -> 2
    [] pc = "placeholder" -> 3
    [] pc = "pending" -> 4
    [] pc = "fetch_diff" -> 5
    [] pc \in {"cloning", "diff_fail_comment"} -> 6
    [] pc \in {"analyzing", "diff_fail_status"} -> 7
    [] pc \in {"pub_comment", "null_comment", "diff_fail_db"} -> 8
    [] pc \in {"pub_review", "null_status"} -> 9
    [] pc \in {"pub_status", "null_db"} -> 10
    [] pc = "finalize" -> 11
    [] pc = "except" -> 12
    [] pc = "done" -> 13

\* C24: within one run the transitions are strictly forward - config
\* resolution, session creation, initial feedback, diff fetch, clone
\* attempt, analysis, publish, finalize, in that order and each at most
\* once, nothing retried - and a failure of the diff fetch or of the
\* analysis goes to the failure finalization with no later step executed.
C24_StrictlyForward ==
  /\ [][\A r \in Runs : run'[r] # run[r] => Stage(run'[r].pc) > Stage(run[r].pc)]_vars
  /\ [](\A r \in Runs :
          /\ run[r].n_create + run[r].n_update > 0 => run[r].sid # 0
          /\ run[r].diff # "none" => Stage(run[r].pc) > 5
          /\ run[r].mode # NULL => run[r].diff = "ok"
          /\ run[r].entry # NULL => run[r].mode # NULL
          /\ run[r].result # "none" => run[r].entry # NULL
          /\ (run[r].att # NoAttempt \/ run[r].saved_inline) => run[r].result = "ok"
          /\ \A f \in Features : run[r].att[f] <= 1
          /\ run[r].diff = "fail" =>
               /\ run[r].pc \in {"diff_fail_comment", "diff_fail_status",
                                 "diff_fail_db", "except", "done"}
               /\ run[r].mode = NULL /\ run[r].entry = NULL
               /\ run[r].att = NoAttempt /\ ~run[r].saved_inline
               /\ run[r].pc = "done" => run[r].ret = "F"
          /\ (run[r].result = "null" \/ run[r].exc = "EngineError") =>
               /\ run[r].pc \in {"null_comment", "null_status", "null_db",
                                 "except", "done"}
               /\ run[r].att = NoAttempt /\ ~run[r].saved_inline
               /\ run[r].pc = "done" => run[r].ret = "F")

C24_Witness ==
  \E r \in Runs :
    /\ run[r].pc = "done" /\ run[r].result = "null" /\ run[r].exc = "none"
    /\ run[r].diff = "ok" /\ run[r].sid # 0 /\ run[r].ret = "F"

\* C25: every provider analyze call returns a ReviewResult or null and
\* never raises; the provider's last error is cleared when the call
\* starts, is a non-empty message whenever the call returns null, and is
\* not set by a call that returns a ReviewResult.
C25_LastError ==
  [][\A i \in Invocations :
       /\ (inv[i].pc = "idle" /\ inv'[i].pc = "running") =>
             last_error'[inv[i].provider] = NULL
       /\ (inv[i].pc # "returned" /\ inv'[i].pc = "returned") =>
             /\ inv'[i].outcome \in {"result", "null"}
             /\ inv'[i].outcome = "null" =>
                  last_error'[inv[i].provider] \notin {NULL, "", " "}
             /\ inv'[i].outcome = "result" => last_error' = last_error]_vars

C25_Witness ==
  \E i, j \in Invocations :
    /\ inv[i].provider = inv[j].provider
    /\ inv[i].pc = "returned" /\ inv[i].outcome = "result"
    /\ inv[j].pc = "returned" /\ inv[j].outcome = "null"
    /\ last_error[inv[j].provider] = "failed with return code 1"

\* C26: each Codex invocation creates its own fresh scratch directory,
\* shared with no other in-flight invocation, and no directory it created
\* exists once it has returned - with a result, with null, or after an
\* exception at any step after the directory was created.
C26_ScratchRemoved ==
  \A i \in Invocations :
    /\ (inv[i].provider = "codex_cli" /\ inv[i].pc = "running") =>
         /\ homes[inv[i].codex_home].exists
         /\ homes[inv[i].codex_home].made_by = i
         /\ \A k \in Invocations :
              (k # i /\ inv[k].pc = "running") => inv[k].codex_home # inv[i].codex_home
    /\ inv[i].pc = "returned" =>
         \A h \in HomeNames : ~(homes[h].exists /\ homes[h].made_by = i)

\* ============================================================ webhook route
\* hmac.new(secret, body, sha256).hexdigest() of the request body.
hmac_sha256(secret) == "hmac " \o secret

\* verify_webhook_signature.
verify_webhook_signature(signature, secret) ==
  IF ~Truthy(secret) THEN TRUE ELSE signature = hmac_sha256(secret)

\* The /webhook route: the secret is the repository's or else the global
\* one; the signature is verified when a secret and a signature header are
\* both present; then the event is dispatched to a background task.
webhook(req) ==
  LET secret_for_validation == Or(req.repo_secret, req.webhook_secret) IN
  IF /\ Truthy(secret_for_validation) /\ Truthy(req.x_gitea_signature)
     /\ ~verify_webhook_signature(req.x_gitea_signature, secret_for_validation)
  THEN [status |-> "401", task |-> "none"]
  ELSE CASE req.x_gitea_event = "pull_request" ->
              [status |-> "202", task |-> "process_webhook_async"]
         [] req.x_gitea_event = "issue_comment" ->
              [status |-> "202", task |-> "process_comment_async"]
         [] OTHER -> [status |-> "200", task |-> "none"]

\* A request has arrived at /webhook: the secrets configured, the
\* signature header (NULL = absent) and the event header.
InitWebhook ==
  /\ run = [r \in Runs |-> NoTask]
  /\ sessions = <<>>
  /\ repoRow = FALSE
  /\ dirs = [p \in PRs |-> 0]
  /\ environ = Environ(NULL, NULL)
  /\ inv = [i \in Invocations |-> NoInvocation]
  /\ homes = [h \in HomeNames |-> NoDir]
  /\ last_error = [p \in ProviderNames |-> NULL]
  /\ \E req \in [repo_secret : {NULL, "repo secret"},
                 webhook_secret : {NULL, "", "global secret"},
                 x_gitea_signature : {NULL, "", "forged", hmac_sha256("repo secret"),
                                      hmac_sha256("global secret")},
                 x_gitea_event : {NULL, "pull_request", "issue_comment", "push"}] :
       call = [op |-> "webhook", pc |-> "received", req |-> req,
               response |-> [status |-> "none", task |-> "none"]]

\* The route answers the request.
Webhook ==
  /\ call.op = "webhook" /\ call.pc = "received"
  /\ call' = [call EXCEPT !.pc = "answered", !.response = webhook(call.req)]
  /\ UNCHANGED <<run, sessions, repoRow, dirs, environ, inv, homes, last_error>>

SpecWebhook == InitWebhook /\ [][Webhook]_vars

\* C27: when a webhook secret is configured for the repository (or
\* globally), a request schedules a review pipeline only if it carries a
\* signature that verifies against that secret; a request with a missing
\* or an invalid signature is rejected and schedules no background task.
C27_SignatureRequired ==
  (/\ call.op = "webhook" /\ call.pc = "answered"
   /\ Truthy(Or(call.req.repo_secret, call.req.webhook_secret))
   /\ call.req.x_gitea_signature #
        hmac_sha256(Or(call.req.repo_secret, call.req.webhook_secret))) =>
     call.response = [status |-> "401", task |-> "none"]

\* C28: with several reviews running concurrently on the shared default
\* provider, the error message a failed review records and writes to its
\* PR comment is the one produced by its own provider invocation, at every
\* interleaving: not another invocation's, and not cleared by another
\* invocation starting before it is read.
C28_OwnError ==
  \A r \in Runs :
    (run[r].pc = "done" /\ run[r].result = "null") =>
       /\ run[r].analysis_error = "error of run " \o ToString(r)
       /\ run[r].comment_id # 0 => run[r].n_update = 1
       /\ (HasSession(r) /\ run[r].db_error = "none" /\ run[r].exc # "DBError") =>
            Sess(r).error_message = "error of run " \o ToString(r)

\* C29: the chosen analysis mode is recorded on the persisted session
\* before the provider call: while the provider runs, and from then on,
\* the session row carries analysis_mode = full or simple.
C29_ModeBeforeCall ==
  \A r \in Runs :
    (run[r].entry # NULL /\ HasSession(r)) =>
       /\ Sess(r).analysis_mode \in {"full", "simple"}
       /\ Sess(r).analysis_mode = run[r].mode

\* C30: in every persisted state InlineComment rows exist only for
\* sessions finalized from a non-null ReviewResult, the number of a
\* session's rows equals its inline_comments_count, and sessions finalized
\* as failure by diff-fetch failure, null analysis or exception have none.
C30_InlineRows ==
  \A s \in DOMAIN sessions :
    /\ sessions[s].inline_rows = sessions[s].inline_comments_count
    /\ sessions[s].inline_rows > 0 =>
         /\ sessions[s].completed_at # 0
         /\ sessions[s].overall_success # NULL
         /\ run[sessions[s].owner_run].result = "ok"
         /\ run[sessions[s].owner_run].pc = "done"
    /\ (\/ sessions[s].error_message # NULL
        \/ run[sessions[s].owner_run].diff = "fail"
        \/ run[sessions[s].owner_run].result = "null"
        \/ run[sessions[s].owner_run].exc # "none") => sessions[s].inline_rows = 0

C30_Witness ==
  \E s \in DOMAIN sessions :
    /\ sessions[s].inline_rows = MaxEntries
    /\ sessions[s].inline_comments_count = MaxEntries
    /\ sessions[s].completed_at # 0
    /\ run[sessions[s].owner_run].result = "ok"

\* C31: there is one UsageStat row per completed session: every session
\* whose completed_at is set, finalized as success or as failure, has
\* exactly one UsageStat row, and no UsageStat row refers to a session
\* that is not completed.
C31_OneUsagePerCompleted ==
  \A s \in DOMAIN sessions :
    /\ sessions[s].completed_at # 0 => sessions[s].usage_rows = 1
    /\ sessions[s].completed_at = 0 => sessions[s].usage_rows = 0

\* C32: the summary comment is updated in place: a run with the comment
\* feature creates at most one comment on the PR; once the placeholder is
\* posted the report or failure notice is written by update_issue_comment
\* and create_issue_comment is not called again; a comment is created at
\* publish time only if the placeholder failed to post.
C32_UpdateInPlace ==
  \A r \in Runs :
    "comment" \in run[r].features =>
      /\ run[r].n_posted <= 1
      /\ run[r].n_create <= 2
      /\ run[r].comment_id # 0 => run[r].n_create = 1 /\ run[r].n_posted = 1
      /\ run[r].n_create = 2 => run[r].comment_id = 0
      /\ (run[r].comment_id # 0 /\ run[r].att.comment = 1) => run[r].n_update = 1
      /\ run[r].n_update > 0 => run[r].comment_id # 0

C32_Witness ==
  \E r \in Runs :
    /\ "comment" \in run[r].features /\ run[r].pc = "done"
    /\ run[r].comment_id # 0 /\ run[r].att.comment = 1
    /\ run[r].n_update = 1 /\ run[r].n_posted = 1

\* ---------------------------------------------------------------------
\* The error text of a failed provider invocation.  A text is a sequence
\* of lines, a line a sequence of whitespace-separated words.  "token=" and
\* "Authorization:" are words that end in a label of the redaction pattern
\* and its separator; "key1" is the API key given to the invocation;
\* LongText is a run of MaxErrorLen characters without whitespace.
\* ---------------------------------------------------------------------
MaxErrorLen == 500

RECURSIVE Filler(_)
Filler(n) ==
  IF n = 0 THEN ""
  ELSE IF n % 2 = 0 THEN LET half == Filler(n \div 2) IN half \o half
  ELSE "x" \o Filler(n - 1)

LongText == Filler(MaxErrorLen)

ErrorWords ==
  {"ERROR:", "unexpected status 401", "failed", "Bearer", "token=",
   "Authorization:", "key1", LongText}

RECURSIVE WordLines(_)
WordLines(n) ==
  IF n = 0 THEN {<<>>}
  ELSE LET shorter == WordLines(n - 1) IN
       shorter \cup {Append(l, w) : l \in {s \in shorter : Len(s) = n - 1},
                                    w \in ErrorWords}

\* The words from the first match of pattern w to the end of its line, <<>>
\* when no line has the word.
RECURSIVE search_line(_, _)
search_line(text, w) ==
  IF text = <<>> THEN <<>>
  ELSE LET line == Head(text)
           at == {k \in 1..Len(line) : line[k] = w} IN
       IF at # {}
       THEN SubSeq(line, CHOOSE k \in at : \A j \in at : k <= j, Len(line))
       ELSE search_line(Tail(text), w)

\* ClaudeCodeProvider._extract_actionable_error: the first "ERROR:" line
\* from the label on, else the first "unexpected status" line, else the last
\* line that is not a "Reconnecting..." line, else the last line.
extract_actionable_error(stderr_text, stdout_text) ==
  LET combined == SelectSeq(stderr_text \o stdout_text, LAMBDA l : l # <<>>)
      filtered == SelectSeq(combined, LAMBDA l : l[1] # "Reconnecting...") IN
  IF combined = <<>> THEN <<>>
  ELSE IF search_line(combined, "ERROR:") # <<>>
       THEN search_line(combined, "ERROR:")
  ELSE IF search_line(combined, "unexpected status 401") # <<>>
       THEN search_line(combined, "unexpected status 401")
  ELSE IF filtered # <<>> THEN filtered[Len(filtered)]
  ELSE combined[Len(combined)]

\* The re.sub of _set_last_error: a label word and the word that follows it
\* become "<label>=[REDACTED]"; a label at the end of the text stays.
RECURSIVE redact(_)
redact(text) ==
  IF text = <<>> THEN <<>>
  ELSE IF Head(text) \in {"token=", "Authorization:"} /\ Len(text) >= 2
       THEN <<IF Head(text) = "token=" THEN "token=[REDACTED]"
              ELSE "Authorization=[REDACTED]">> \o redact(Tail(Tail(text)))
  ELSE <<Head(text)>> \o redact(Tail(text))

\* The number of characters of a text whose words are joined by blanks.
RECURSIVE text_len(_)
text_len(text) ==
  IF text = <<>> THEN 0
  ELSE Len(Head(text)) + (IF Len(text) > 1 THEN 1 ELSE 0) + text_len(Tail(text))

\* text[:500] + "...": the words that fit whole are kept; the cut word is
\* shown by the "..." only.
truncate(text) ==
  IF text_len(text) <= MaxErrorLen THEN text
  ELSE LET fit == {k \in 0..Len(text) : text_len(SubSeq(text, 1, k)) <= MaxErrorLen}
           n == CHOOSE k \in fit : \A j \in fit : j <= k IN
       Append(SubSeq(text, 1, n), "...")

\* A provider subprocess has exited with a non-zero return code.
InitRedact ==
  /\ run = [r \in Runs |-> NoTask]
  /\ sessions = <<>>
  /\ repoRow = FALSE
  /\ dirs = [p \in PRs |-> 0]
  /\ environ = Environ(NULL, NULL)
  /\ inv = [i \in Invocations |-> NoInvocation]
  /\ homes = [h \in HomeNames |-> NoDir]
  /\ last_error = [p \in ProviderNames |-> NULL]
  /\ \E l \in WordLines(MaxEntries + 1),
        other \in {<<>>, <<"Reconnecting...">>, <<"warning">>},
        first \in BOOLEAN, on_stdout \in BOOLEAN :
       call = [op |-> "set_last_error", pc |-> "exited", api_key |-> "key1",
               stderr_text |-> IF on_stdout THEN <<other>>
                               ELSE IF first THEN <<l, other>> ELSE <<other, l>>,
               stdout_text |-> IF on_stdout THEN <<l>> ELSE <<>>,
               message |-> <<>>, stored |-> <<>>]

\* analyze_pr, non-zero return code: the actionable error or the default.
ExtractError ==
  /\ call.op = "set_last_error" /\ call.pc = "exited"
  /\ call' = [call EXCEPT
                !.pc = "extracted",
                !.message =
                   LET actionable_error ==
                         extract_actionable_error(call.stderr_text, call.stdout_text) IN
                   IF actionable_error # <<>> THEN actionable_error
                   ELSE <<"failed", "with", "return", "code", "1">>]
  /\ UNCHANGED <<run, sessions, repoRow, dirs, environ, inv, homes, last_error>>

\* _set_last_error: redaction, then the length cap.
SetLastError ==
  /\ call.op = "set_last_error" /\ call.pc = "extracted"
  /\ call' = [call EXCEPT !.pc = "stored",
                          !.stored = truncate(redact(call.message))]
  /\ UNCHANGED <<run, sessions, repoRow, dirs, environ, inv, homes, last_error>>

NextRedact == ExtractError \/ SetLastError

SpecRedact == InitRedact /\ [][NextRedact]_vars

\* C33: the error stored as a provider's last error is credential-redacted
\* before it is truncated and exposed: for every failing invocation the
\* stored message never contains the API key of that invocation, including
\* when the subprocess echoes it after a token or authorization label.
C33_Redacted ==
  (call.op = "set_last_error" /\ call.pc = "stored") =>
     \A k \in 1..Len(call.stored) : call.stored[k] # call.api_key

\* C34: for every trigger (webhook headers, review command options or
\* configuration defaults) the feature list a review runs with is a
\* non-empty subset of {comment, review, status} and the focus list is a
\* non-empty subset of {quality, security, performance, logic}, so a review
\* that runs has at least one publish channel.
C34_NonEmptyLists ==
  (call.op = "config" /\ call.pc = "resolved") =>
     LET features == {call.resolved.features[k] : k \in 1..Len(call.resolved.features)}
         focus_areas == {call.resolved.focus_areas[k] :
                           k \in 1..Len(call.resolved.focus_areas)} IN
     /\ features # {} /\ features \subseteq Features
     /\ focus_areas # {} /\ focus_areas \subseteq FocusAreas
=============================================================================
